---- MODULE Spec2Model ----
(***************************************************************************)
(* GoHighLevel-MCP: the OAuth token lifecycle and the message fetcher.     *)
(*                                                                         *)
(*   Spec      fastmcp_server.py: TokenStore, GHLOAuthProvider's code      *)
(*             exchange, the token endpoint and the asyncio tasks that     *)
(*             call them.  Every await that really suspends                *)
(*             (client.post) splits a coroutine into two actions: the      *)
(*             call up to the POST, and the resume on the response.        *)
(*   SpecRace  the same, with the issuing of a refreshed token by the      *)
(*             token endpoint and the arrival of its response as two       *)
(*             steps, so that responses overtake one another.              *)
(*   SpecAuth  oauth_client.py: GHLOAuthClient, its authorization URL, its *)
(*             PKCE attempt and its code exchange; the provider's          *)
(*             authorization URL.                                          *)
(*   SpecApi   fastmcp_server.py: GHLApiClient's coroutines, which call    *)
(*             TokenStore.refresh_token and then the upstream API, next    *)
(*             to the provider's code exchange.                            *)
(*   SpecFetch scripts/fetch_messages_with_date_filter.py: one call of     *)
(*             fetch_conversation_messages_with_date_filter against a      *)
(*             remote conversation; a step is one turn of its while loop.  *)
(*                                                                         *)
(* The tool layer of the two servers and main() of the fetch script are    *)
(* operators over the outcome of the call they wrap.                       *)
(*                                                                         *)
(* Time is in seconds.  A token response body (token_data) is a record     *)
(* whose DOMAIN is the set of keys the JSON object holds, so that          *)
(* token_data['k'] and token_data.get('k', d) are modelled as the code     *)
(* evaluates them.                                                         *)
(***************************************************************************)
EXTENDS Integers, Sequences, FiniteSets, TLC

\* ------------------------------------------------------------------ bounds
NumTasks == 2
MaxPosts == 3
MaxTicks == 1
MaxClientPosts == 2
\* tasks that run at once in SpecApi
NumApiTasks == 1
\* records in the remote conversation
MaxRecords == 3
\* limit_per_page of the fetch
PageLimit == 2
\* page requests of one fetch
MaxRequests == 3
\* seconds the clock advances in one Tick
TickSeconds == 3600

\* ------------------------------------------------------- program constants
\* timedelta(minutes=5), in seconds
SkewMarginSeconds == 300

Tasks == 1..NumTasks
ApiTasks == 1..NumApiTasks

DEFAULT_USER == "default_user"

\* the principals a call may name: the tool layer's constant and one issuer id
Users == {DEFAULT_USER, "u1"}

\* Python's None, for Optional[str] fields
NoneStr == "None"

ExpiresInValues == {120, 3600}

VARIABLES
    now,        \* datetime.now()
    tokens,     \* TokenStore._tokens: a dict, DOMAIN = the keys stored
    pc,         \* task -> "idle" | "sent" (suspended in the token POST)
                \*         | "upstream" (suspended in the upstream request)
    op,         \* task -> the coroutine it runs
    user,       \* task -> refresh_token's user_id argument
    token,      \* task -> refresh_token's local `token`
    sent,       \* task -> POSTs this invocation has sent
    ret,        \* the call or return the step just taken was, if any
    posts,      \* POSTs sent to the token endpoint, all tasks
    issued,     \* access tokens the token endpoint has issued
    ticks,      \* Tick steps taken
    arrived,    \* task -> the response to its refresh request, on its way back
    \* GHLOAuthClient (oauth_client.py)
    client_id,      \* self.client_id, a string
    redirect_uri,   \* self.redirect_uri, a string
    code_verifier,  \* self.code_verifier
    code_challenge, \* self.code_challenge
    state,          \* self.state
    cpc,            \* the client's exchange: "idle" | "sent"
    creq,           \* token_data of the exchange request in flight
    cret,           \* the call or return the client's last step was
    cposts,         \* POSTs the client sent to the token endpoint
    built,          \* state and code_challenge in the last two URLs the client built
    \* GHLApiClient (fastmcp_server.py)
    hdr,            \* task -> the local `headers` of its upstream request
    aret,           \* the call, request or return of GHLApiClient in the step
    \* GHLMessageFetcher (scripts/fetch_messages_with_date_filter.py)
    collection,         \* the remote conversation's messages, as it serves them
    start_date,         \* argument
    end_date,           \* argument
    message_types,      \* argument
    fpc,                \* "idle" | "loop" (at the while test) | "sort" | "done"
    filtered_messages,
    last_message_id,
    has_more,
    reached_date_limit,
    total_fetched,
    pages_fetched,
    requests,           \* the page requests sent, in order
    responses,          \* what requests.get brought back for each
    examined,           \* the messages the for loop has looked at, in order
    fret                \* what the fetch returned

storeVars == <<now, tokens, pc, op, user, token, sent, ret, posts, issued, ticks, arrived>>
authVars == <<client_id, redirect_uri, code_verifier, code_challenge, state, cpc, creq, cret,
              cposts, built>>
apiVars == <<hdr, aret>>
fetchVars == <<collection, start_date, end_date, message_types, fpc,
               filtered_messages, last_message_id, has_more, reached_date_limit,
               total_fetched, pages_fetched, requests, responses, examined, fret>>
vars == <<storeVars, authVars, apiVars, fetchVars>>

\* ------------------------------------------------------------ token endpoint
\* The keys a token response may hold.
BodyKeys == {"access_token", "refresh_token", "expires_in", "scope", "locationId", "userId"}

\* The complete body of the n-th issued token.
FullBody(n, expires_in) ==
    [access_token |-> n, refresh_token |-> n, expires_in |-> expires_in,
     scope |-> "contacts.readonly", locationId |-> "loc1", userId |-> "u1"]

Restrict(f, keys) == [k \in keys |-> f[k]]

\* The 2xx bodies the issuer may send, as <<keys left out, expires_in>>: the
\* complete body, a body without the optional refresh_token or userId, and
\* bodies that lack a required key.
BodyShapes ==
    ({ {}, {"refresh_token"}, {"userId"} } \X ExpiresInValues)
    \cup ({ {"access_token"}, {"expires_in"} } \X {3600})

\* Every response a POST to the token endpoint can end in: the transport
\* failing, a non-2xx status, or a 2xx status with a JSON body.
Replies(n) ==
    { [kind |-> "network_error"], [kind |-> "http_error"] }
    \cup { [kind |-> "ok", body |-> Restrict(FullBody(n, sh[2]), BodyKeys \ sh[1])] :
             sh \in BodyShapes }

\* dict.get(key, default)
Get(d, key, default) == IF key \in DOMAIN d THEN d[key] ELSE default

\* ---------------------------------------------------------------- OAuthToken
\* OAuthToken(...) of refresh_token: raises (KeyError) when a subscripted key
\* is missing; the except clause turns every exception into `return None`.
RefreshBodyOk(token_data) == {"access_token", "expires_in"} \subseteq DOMAIN token_data

\* Faulty variant: the stored token is patched in place, only its
\* access_token taken from the response.
NewTokenPatchedInPlace(token_data, tok, t) ==
    [tok EXCEPT !.access_token = token_data["access_token"]]

\* Faulty variant: the response's refresh_token is ignored.
NewTokenKeepingRefreshToken(token_data, tok, t) ==
    [access_token  |-> token_data["access_token"],
     refresh_token |-> tok.refresh_token,
     token_type    |-> "Bearer",
     expires_in    |-> token_data["expires_in"],
     expires_at    |-> t + token_data["expires_in"],
     scope         |-> Get(token_data, "scope", tok.scope),
     location_id   |-> tok.location_id,
     user_id       |-> tok.user_id]

\* Faulty variant: expires_at is carried over from the replaced token.
NewTokenKeepingExpiry(token_data, tok, t) ==
    [access_token  |-> token_data["access_token"],
     refresh_token |-> Get(token_data, "refresh_token", tok.refresh_token),
     token_type    |-> "Bearer",
     expires_in    |-> token_data["expires_in"],
     expires_at    |-> tok.expires_at,
     scope         |-> Get(token_data, "scope", tok.scope),
     location_id   |-> tok.location_id,
     user_id       |-> tok.user_id]

NewTokenOfRefresh(token_data, tok, t) ==
    [access_token  |-> token_data["access_token"],
     refresh_token |-> Get(token_data, "refresh_token", tok.refresh_token),
     token_type    |-> "Bearer",
     expires_in    |-> token_data["expires_in"],
     expires_at    |-> t + token_data["expires_in"],
     scope         |-> Get(token_data, "scope", tok.scope),
     location_id   |-> tok.location_id,
     user_id       |-> tok.user_id]

\* OAuthToken(...) of GHLOAuthProvider.exchange_code_for_token
ExchangeBodyOk(token_data) ==
    {"access_token", "refresh_token", "expires_in", "scope"} \subseteq DOMAIN token_data

NewTokenOfExchange(token_data, t) ==
    [access_token  |-> token_data["access_token"],
     refresh_token |-> token_data["refresh_token"],
     token_type    |-> "Bearer",
     expires_in    |-> token_data["expires_in"],
     expires_at    |-> t + token_data["expires_in"],
     scope         |-> token_data["scope"],
     location_id   |-> Get(token_data, "locationId", NoneStr),
     user_id       |-> Get(token_data, "userId", DEFAULT_USER)]

\* ---------------------------------------------------------------- TokenStore
\* self._tokens[user_id] = token
store_token(tk, user_id, tok) ==
    [u \in DOMAIN tk \cup {user_id} |-> IF u = user_id THEN tok ELSE tk[u]]

\* Values a coroutine hands back.
ReturnNone == [kind |-> "None"]
ReturnToken(tok) == [kind |-> "token", token |-> tok]
Raise(exc) == [kind |-> "raise", exc |-> exc]

NoToken == [kind |-> "None"]
NoReply == [kind |-> "none"]

\* self._tokens.get(user_id)
HasToken(tk, user_id) == user_id \in DOMAIN tk

\* Faulty variant: the comparison is turned around.
StillValidInverted(tok, t) == t > tok.expires_at - SkewMarginSeconds

\* Faulty variant: the skew margin is forgotten.
StillValidNoMargin(tok, t) == t < tok.expires_at

\* datetime.now() < token.expires_at - timedelta(minutes=5)
StillValid(tok, t) == t < tok.expires_at - SkewMarginSeconds

\* response.raise_for_status() and the construction of new_token both pass
RefreshSucceeds(r) == r.kind = "ok" /\ RefreshBodyOk(r.body)

ExchangeSucceeds(r) == r.kind = "ok" /\ ExchangeBodyOk(r.body)

\* The exception exchange_code_for_token re-raises.
ExchangeError(r) ==
    IF r.kind = "http_error" THEN "HTTPStatusError"
    ELSE IF r.kind = "network_error" THEN "RequestError"
    ELSE "KeyError"


\* self._tokens.get(user_id): the token, or None
get_token(tk, user_id) == IF HasToken(tk, user_id) THEN tk[user_id] ELSE NoToken

\* Faulty variant: self._tokens[user_id] instead of .get(user_id).
AbsentRaises == Raise("KeyError")

\* `if not token: return None`
AbsentResult == ReturnNone

\* Faulty variant: a failed refresh drops the stored token.
TokensAfterRefreshDropping(tk, user_id, tok, r, t) ==
    IF RefreshSucceeds(r)
    THEN store_token(tk, user_id, NewTokenOfRefresh(r.body, tok, t))
    ELSE [u \in DOMAIN tk \ {user_id} |-> tk[u]]

\* What refresh_token does to the store once the response is in.
TokensAfterRefresh(tk, user_id, tok, r, t) ==
    IF RefreshSucceeds(r)
    THEN store_token(tk, user_id, NewTokenOfRefresh(r.body, tok, t))
    ELSE tk

\* What refresh_token returns once the response is in.
ResultOfRefresh(tok, r, t) ==
    IF RefreshSucceeds(r)
    THEN ReturnToken(NewTokenOfRefresh(r.body, tok, t))
    ELSE ReturnNone

\* Faulty variant: every token is stored under the tool layer's constant.
ExchangeStoreKeyDefault(tok) == DEFAULT_USER

\* await self.token_store.store_token(token.user_id, token)
ExchangeStoreKey(tok) == tok.user_id

TokensAfterExchange(tk, r, t) ==
    IF ExchangeSucceeds(r)
    THEN store_token(tk, ExchangeStoreKey(NewTokenOfExchange(r.body, t)),
                     NewTokenOfExchange(r.body, t))
    ELSE tk

\* Faulty variant: a failed exchange is swallowed and None returned.
ResultOfExchangeSwallowing(r, t) ==
    IF ExchangeSucceeds(r)
    THEN ReturnToken(NewTokenOfExchange(r.body, t))
    ELSE ReturnNone

ResultOfExchange(r, t) ==
    IF ExchangeSucceeds(r)
    THEN ReturnToken(NewTokenOfExchange(r.body, t))
    ELSE Raise(ExchangeError(r))

\* ------------------------------------------------------------------ actions
\* What the step just taken was for the caller of a coroutine: a call that
\* suspended in client.post, or a return (at once, or on resuming) with the
\* task, the coroutine, its user_id argument, its local `token`, the POSTs
\* the invocation sent, the response it resumed with, and the value returned
\* or the exception raised.
NoReturn == [kind |-> "none"]
Suspended(c, o, u, tok) ==
    [kind |-> "call", task |-> c, op |-> o, user |-> u, token |-> tok]
Returned(c, o, u, tok, n, r, v) ==
    [kind |-> "return", task |-> c, op |-> o, user |-> u, token |-> tok,
     sent |-> n, reply |-> r, value |-> v]

\* TokenStore.refresh_token(user_id), up to its first suspension: the lookup,
\* the expiry test and, for a stale token, the POST of the refresh request.
RefreshTokenCall(c, u) ==
    /\ pc[c] = "idle"
    /\ LET tok == get_token(tokens, u) IN
       IF tok = NoToken
       THEN /\ ret' = Returned(c, "refresh", u, tok, 0, NoReply, AbsentResult)
            /\ UNCHANGED <<pc, op, user, token, sent, posts>>
       ELSE IF StillValid(tok, now)
       THEN /\ ret' = Returned(c, "refresh", u, tok, 0, NoReply, ReturnToken(tok))
            /\ UNCHANGED <<pc, op, user, token, sent, posts>>
       ELSE /\ posts < MaxPosts
            /\ pc' = [pc EXCEPT ![c] = "sent"]
            /\ op' = [op EXCEPT ![c] = "refresh"]
            /\ user' = [user EXCEPT ![c] = u]
            /\ token' = [token EXCEPT ![c] = tok]
            /\ sent' = [sent EXCEPT ![c] = 1]
            /\ posts' = posts + 1
            /\ ret' = Suspended(c, "refresh", u, tok)
    /\ UNCHANGED <<now, tokens, issued, ticks, arrived, authVars, hdr, fetchVars>>
    /\ aret' = NoReturn

\* The task's locals are dropped when its coroutine ends.
Finish(c) ==
    /\ pc' = [pc EXCEPT ![c] = "idle"]
    /\ op' = [op EXCEPT ![c] = "none"]
    /\ user' = [user EXCEPT ![c] = DEFAULT_USER]
    /\ token' = [token EXCEPT ![c] = NoToken]
    /\ sent' = [sent EXCEPT ![c] = 0]

\* The token endpoint's response r reaches task c and refresh_token resumes:
\* raise_for_status, json(), the new OAuthToken, store_token, return; or the
\* except clause.
RefreshTokenResume(c) ==
    /\ pc[c] = "sent"
    /\ op[c] = "refresh"
    /\ \E r \in Replies(issued + 1) :
         /\ issued' = IF r.kind = "ok" THEN issued + 1 ELSE issued
         /\ tokens' = TokensAfterRefresh(tokens, user[c], token[c], r, now)
         /\ ret' = Returned(c, "refresh", user[c], token[c], sent[c], r,
                            ResultOfRefresh(token[c], r, now))
    /\ Finish(c)
    /\ UNCHANGED <<now, posts, ticks, arrived, authVars, hdr, fetchVars>>
    /\ aret' = NoReturn

\* GHLOAuthProvider.exchange_code_for_token(code, code_verifier), up to the
\* POST.  The code and the verifier travel in the request and are read by the
\* issuer alone.
ExchangeCall(c) ==
    /\ pc[c] = "idle"
    /\ posts < MaxPosts
    /\ pc' = [pc EXCEPT ![c] = "sent"]
    /\ op' = [op EXCEPT ![c] = "exchange"]
    /\ sent' = [sent EXCEPT ![c] = 1]
    /\ posts' = posts + 1
    /\ ret' = Suspended(c, "exchange", user[c], NoToken)
    /\ UNCHANGED <<now, tokens, user, token, issued, ticks, arrived, authVars, hdr, fetchVars>>
    /\ aret' = NoReturn

\* The response r reaches task c and exchange_code_for_token resumes.
ExchangeResume(c) ==
    /\ pc[c] = "sent"
    /\ op[c] = "exchange"
    /\ \E r \in Replies(issued + 1) :
         /\ issued' = IF r.kind = "ok" THEN issued + 1 ELSE issued
         /\ tokens' = TokensAfterExchange(tokens, r, now)
         /\ ret' = Returned(c, "exchange", user[c], NoToken, sent[c], r,
                            ResultOfExchange(r, now))
    /\ Finish(c)
    /\ UNCHANGED <<now, posts, ticks, arrived, authVars, hdr, fetchVars>>
    /\ aret' = NoReturn

\* The task is cancelled while suspended in client.post: CancelledError is no
\* Exception, so neither except clause catches it.
Cancel(c) ==
    /\ pc[c] = "sent"
    /\ ret' = Returned(c, op[c], user[c], token[c], sent[c], NoReply,
                       Raise("CancelledError"))
    /\ Finish(c)
    /\ UNCHANGED <<now, tokens, posts, issued, ticks, authVars, hdr, fetchVars>>
    /\ arrived' = [arrived EXCEPT ![c] = NoReply]
    /\ aret' = NoReturn

\* The clock advances.
\* The token endpoint answers the refresh request of task c: the token is
\* issued now, the response is on its way. Two requests in flight are
\* answered in either order and their responses arrive in either order.
Serve(c) ==
    /\ pc[c] = "sent"
    /\ op[c] = "refresh"
    /\ arrived[c] = NoReply
    /\ \E r \in Replies(issued + 1) :
         /\ issued' = IF r.kind = "ok" THEN issued + 1 ELSE issued
         /\ arrived' = [arrived EXCEPT ![c] = r]
    /\ ret' = NoReturn
    /\ aret' = NoReturn
    /\ UNCHANGED <<now, tokens, pc, op, user, token, sent, posts, ticks, authVars, hdr,
                   fetchVars>>

\* The response issued for task c arrives and refresh_token resumes, as in
\* RefreshTokenResume.
RefreshTokenReceive(c) ==
    /\ pc[c] = "sent"
    /\ op[c] = "refresh"
    /\ arrived[c] # NoReply
    /\ tokens' = TokensAfterRefresh(tokens, user[c], token[c], arrived[c], now)
    /\ ret' = Returned(c, "refresh", user[c], token[c], sent[c], arrived[c],
                       ResultOfRefresh(token[c], arrived[c], now))
    /\ arrived' = [arrived EXCEPT ![c] = NoReply]
    /\ Finish(c)
    /\ aret' = NoReturn
    /\ UNCHANGED <<now, posts, issued, ticks, authVars, hdr, fetchVars>>

Tick ==
    /\ ticks < MaxTicks
    /\ ticks' = ticks + 1
    /\ now' = now + TickSeconds
    /\ ret' = NoReturn
    /\ aret' = NoReturn
    /\ UNCHANGED <<tokens, pc, op, user, token, sent, posts, issued, arrived,
                   authVars, hdr, fetchVars>>

\* ------------------------------------------------------------- GHLApiClient
\* get_contacts, create_contact and get_opportunities differ in the verb, the
\* path and the payload of the upstream request only: one stands for them.
Methods == {"get_contacts"}

\* ValueError(f"No valid token for user: {user_id}")
ValueErrorNoToken(user_id) == <<"ValueError: No valid token for user", user_id>>

NoHeaders == [kind |-> "none"]

\* Faulty variant: the wrong field of the token goes into the header.
HeadersOfRefreshToken(tok) ==
    [Authorization |-> <<"Bearer", tok.refresh_token>>,
     ContentType |-> "application/json", Accept |-> "application/json"]

\* The dict _get_headers returns for the token refresh_token gave it.
Headers(tok) ==
    [Authorization |-> <<"Bearer", tok.access_token>>,
     ContentType |-> "application/json", Accept |-> "application/json"]

\* Faulty variant: without a token the call answers with no data.
NoValidTokenSwallowed(v, user_id) == [kind |-> "data"]

\* _get_headers when refresh_token gave no token: `if not token: raise`; an
\* exception of refresh_token itself would pass through.
NoValidToken(v, user_id) ==
    IF v.kind = "raise" THEN v ELSE Raise(ValueErrorNoToken(user_id))

\* client.get / client.post of the method, with the headers.
UpstreamRequest(m, headers) ==
    [verb |-> IF m = "create_contact" THEN "POST" ELSE "GET",
     path |-> "/contacts", headers |-> headers]

\* What the upstream API's answer can be for the waiting task: a 2xx
\* response, a non-2xx one, a transport failure, or the task's cancellation.
UpstreamReplies ==
    { [kind |-> "ok"], [kind |-> "http_error"], [kind |-> "network_error"],
      [kind |-> "cancelled"] }

\* raise_for_status and the data returned.
UpstreamResult(resp) ==
    IF resp.kind = "ok" THEN [kind |-> "data"]
    ELSE IF resp.kind = "cancelled" THEN Raise("CancelledError")
    ELSE Raise(ExchangeError(resp))

\* What the step was for the caller of a GHLApiClient coroutine: a call that
\* suspended in refresh_token's POST, the sending of the upstream request
\* (with the value refresh_token returned to _get_headers), or a return.
ApiSuspended(c, m, u) ==
    [kind |-> "call", task |-> c, method |-> m, user |-> u]
ApiRequested(c, m, u, v, request) ==
    [kind |-> "request", task |-> c, method |-> m, user |-> u, fresh |-> v,
     request |-> request]
ApiReturned(c, m, u, resp, v) ==
    [kind |-> "return", task |-> c, method |-> m, user |-> u, response |-> resp,
     value |-> v]

\* get_contacts / create_contact (user_id), up to the first suspension:
\* _get_headers calls refresh_token, which returns at once or suspends in its
\* POST; with a token the headers are built and the upstream request is sent.
ApiCall(c, u, m) ==
    /\ pc[c] = "idle"
    /\ LET tok == get_token(tokens, u) IN
       IF tok = NoToken
       THEN /\ ret' = Returned(c, "refresh", u, tok, 0, NoReply, AbsentResult)
            /\ aret' = ApiReturned(c, m, u, NoReply, NoValidToken(AbsentResult, u))
            /\ UNCHANGED <<pc, op, user, token, sent, posts, hdr>>
       ELSE IF StillValid(tok, now)
       THEN /\ ret' = Returned(c, "refresh", u, tok, 0, NoReply, ReturnToken(tok))
            /\ pc' = [pc EXCEPT ![c] = "upstream"]
            /\ op' = [op EXCEPT ![c] = m]
            /\ user' = [user EXCEPT ![c] = u]
            /\ hdr' = [hdr EXCEPT ![c] = Headers(tok)]
            /\ aret' = ApiRequested(c, m, u, ReturnToken(tok),
                                    UpstreamRequest(m, Headers(tok)))
            /\ UNCHANGED <<token, sent, posts>>
       ELSE /\ posts < MaxPosts
            /\ pc' = [pc EXCEPT ![c] = "sent"]
            /\ op' = [op EXCEPT ![c] = m]
            /\ user' = [user EXCEPT ![c] = u]
            /\ token' = [token EXCEPT ![c] = tok]
            /\ sent' = [sent EXCEPT ![c] = 1]
            /\ posts' = posts + 1
            /\ ret' = Suspended(c, "refresh", u, tok)
            /\ aret' = ApiSuspended(c, m, u)
            /\ UNCHANGED hdr
    /\ UNCHANGED <<now, tokens, issued, ticks, arrived, authVars, fetchVars>>

\* The token endpoint's response r reaches task c, refresh_token resumes and
\* returns to _get_headers, which raises or builds the headers; with headers
\* the upstream request is sent.
ApiRefreshResume(c) ==
    /\ pc[c] = "sent"
    /\ op[c] \in Methods
    /\ \E r \in Replies(issued + 1) :
         LET v == ResultOfRefresh(token[c], r, now) IN
         /\ issued' = IF r.kind = "ok" THEN issued + 1 ELSE issued
         /\ tokens' = TokensAfterRefresh(tokens, user[c], token[c], r, now)
         /\ ret' = Returned(c, "refresh", user[c], token[c], sent[c], r, v)
         /\ IF v.kind = "token"
            THEN /\ pc' = [pc EXCEPT ![c] = "upstream"]
                 /\ token' = [token EXCEPT ![c] = NoToken]
                 /\ sent' = [sent EXCEPT ![c] = 0]
                 /\ hdr' = [hdr EXCEPT ![c] = Headers(v.token)]
                 /\ aret' = ApiRequested(c, op[c], user[c], v,
                                         UpstreamRequest(op[c], Headers(v.token)))
                 /\ UNCHANGED <<op, user>>
            ELSE /\ Finish(c)
                 /\ aret' = ApiReturned(c, op[c], user[c], NoReply,
                                        NoValidToken(v, user[c]))
                 /\ UNCHANGED hdr
    /\ UNCHANGED <<now, posts, ticks, arrived, authVars, fetchVars>>

\* The upstream response reaches task c (or the task is cancelled) and the
\* coroutine ends: raise_for_status, then the data.
UpstreamResume(c) ==
    /\ pc[c] = "upstream"
    /\ \E resp \in UpstreamReplies :
         aret' = ApiReturned(c, op[c], user[c], resp, UpstreamResult(resp))
    /\ ret' = NoReturn
    /\ Finish(c)
    /\ hdr' = [hdr EXCEPT ![c] = NoHeaders]
    /\ UNCHANGED <<now, tokens, posts, issued, ticks, arrived, authVars, fetchVars>>

\* ------------------------------------------------ GHLOAuthClient (oauth_client.py)
\* secrets.token_bytes(32), base64url-encoded without padding
Verifiers == {"v1", "v2"}

\* secrets.token_urlsafe(32)
StateValues == {"s1", "s2"}

\* base64url(sha256(verifier)) without padding: one challenge per verifier
S256(verifier) == IF verifier = "v1" THEN "c1" ELSE "c2"

\* The authorization codes and the state values a callback may present.
Codes == {"a1", "a2"}
ReceivedStates == StateValues \cup {NoneStr}

ValueErrorState == "ValueError: Invalid state parameter - possible CSRF attack"
ValueErrorVerifier == "ValueError: Code verifier not found - authorization flow not started"

NoRequest == [kind |-> "none"]

\* Faulty variant: the state is not tested.
StateDiffersNever(received, expected) == FALSE

\* Faulty variant: the test is turned around.
StateDiffersInverted(received, expected) == received = expected

\* secrets.token_bytes(32) and the size of a SHA-256 digest, in bytes
TokenBytes == 32
Sha256DigestBytes == 32

\* len(base64.urlsafe_b64encode(b).decode('utf-8').rstrip('=')) for len(b) = n:
\* four characters for every three bytes begun, less the '=' padding.
B64StrippedLen(n) == 4 * ((n + 2) \div 3) - ((3 - (n % 3)) % 3)

\* Faulty variant: the request carries a verifier of its own.
TokenDataOtherVerifier(authorization_code, verifier) ==
    [kind |-> "request", grant_type |-> "authorization_code",
     code |-> authorization_code, code_verifier |-> "v1"]

\* `if state != self.state`
StateDiffers(received, expected) == received # expected

\* `if not self.code_verifier`
VerifierMissing(verifier) == verifier = NoneStr

\* The request body of the code exchange.
TokenData(authorization_code, verifier) ==
    [kind |-> "request", grant_type |-> "authorization_code",
     code |-> authorization_code, code_verifier |-> verifier]

ClientCalled(o, code, st) == [kind |-> "call", op |-> o, code |-> code, state |-> st]
ClientReturned(o, code, st, r, v) ==
    [kind |-> "return", op |-> o, code |-> code, state |-> st, reply |-> r, value |-> v]

\* The scopes argument: None stands for the default list of the function.
DefaultScopes ==
    <<"contacts.readonly", "contacts.write", "opportunities.readonly",
      "opportunities.write", "calendars.readonly", "calendars.write",
      "conversations.readonly", "workflows.readonly", "locations.readonly",
      "users.readonly">>
ScopeArgs ==
    {NoneStr, <<>>, <<"contacts.readonly">>, <<"contacts.write", "contacts.readonly">>}

\* A string that ends up in a URL is a sequence of pieces: a piece is one of
\* the characters below, which quote_plus rewrites, or a run of characters
\* that quote_plus leaves alone (letters, digits, '_', '.', '-', '~').
Rewritten == {" ", "&", "=", "+", "%", ":", "/", "?"}

\* the constructor's client_id and redirect_uri
ClientIds == { <<>>, <<"id">>, <<"a", "&", "b", "=", "c">>, <<"x", " ", "+", "%", "26">> }
RedirectUris ==
    { <<"http", ":", "/", "/", "localhost", ":", "8000", "/", "oauth", "/", "callback">>,
      <<"https", ":", "/", "/", "app", "/", "cb", "?", "next", "=", "a", "+", "b", "&", "c">> }

\* self.auth_url
AuthUrlBase == "https://services.leadconnectorhq.com/oauth/authorize"

\* Faulty variant: nothing is quoted.
quote_plus_nothing(s) == s

\* urllib.parse.quote_plus: ' ' becomes '+', every other character outside
\* the safe set becomes its %XX escape.
quote_plus(s) ==
    [i \in 1..Len(s) |->
        CASE s[i] = " " -> "+"
          [] s[i] = "&" -> "%26"
          [] s[i] = "=" -> "%3D"
          [] s[i] = "+" -> "%2B"
          [] s[i] = "%" -> "%25"
          [] s[i] = ":" -> "%3A"
          [] s[i] = "/" -> "%2F"
          [] s[i] = "?" -> "%3F"
          [] OTHER -> s[i]]

\* urllib.parse.urlencode(params): key=value pairs in the dict's insertion
\* order, both quoted, joined by '&'.
RECURSIVE urlencode(_)
urlencode(params) ==
    IF params = <<>> THEN <<>>
    ELSE LET pair == quote_plus(<<params[1][1]>>) \o <<"=">> \o quote_plus(params[1][2])
         IN IF Len(params) = 1 THEN pair
            ELSE pair \o <<"&">> \o urlencode(Tail(params))

\* ' '.join(scopes)
RECURSIVE JoinSpace(_)
JoinSpace(scopes) ==
    IF scopes = <<>> THEN <<>>
    ELSE IF Len(scopes) = 1 THEN <<scopes[1]>>
    ELSE <<scopes[1], " ">> \o JoinSpace(Tail(scopes))

\* The params dict of get_authorization_url, in insertion order.
AuthParams(cid, ruri, scopes, st, challenge) ==
    << <<"response_type", <<"code">>>>,
       <<"client_id", cid>>,
       <<"redirect_uri", ruri>>,
       <<"scope", JoinSpace(scopes)>>,
       <<"state", st>>,
       <<"code_challenge", challenge>>,
       <<"code_challenge_method", <<"S256">>>> >>

\* f"{self.auth_url}?{urlencode(params)}"
AuthUrl(cid, ruri, scopes, st, challenge) ==
    <<AuthUrlBase, "?">> \o urlencode(AuthParams(cid, ruri, scopes, st, challenge))

\* The last two elements of a sequence.
LastTwo(seq) == IF Len(seq) <= 2 THEN seq ELSE SubSeq(seq, Len(seq) - 1, Len(seq))

\* The return of a URL builder: ClientReturned with the scopes joined and the
\* state and code_challenge written into the URL.
UrlReturned(o, scopes, st, challenge, url) ==
    [kind |-> "return", op |-> o, code |-> NoneStr, state |-> NoneStr, reply |-> NoReply,
     scopes |-> scopes, url_state |-> st, url_challenge |-> challenge, value |-> url]

\* get_authorization_url(scopes): _generate_pkce_params() draws a new verifier and a
\* new state and overwrites the attempt the client holds; the URL is returned.
GetAuthorizationUrl ==
    /\ \E arg \in ScopeArgs, v \in Verifiers, st \in StateValues :
         LET scopes == IF arg = NoneStr THEN DefaultScopes ELSE arg IN
         /\ code_verifier' = v
         /\ code_challenge' = S256(v)
         /\ state' = st
         /\ cret' = UrlReturned("get_authorization_url", scopes, <<st>>, <<S256(v)>>,
                                AuthUrl(client_id, redirect_uri, scopes, <<st>>, <<S256(v)>>))
         /\ built' = LastTwo(Append(built, [state |-> st, code_challenge |-> S256(v)]))
    /\ UNCHANGED <<client_id, redirect_uri, cpc, creq, cposts>>
    /\ UNCHANGED <<storeVars, apiVars, fetchVars>>

\* Config.SCOPES of fastmcp_server.py
ConfigScopes ==
    <<"contacts.readonly", "contacts.write", "opportunities.readonly",
      "opportunities.write", "calendars.readonly", "calendars.write",
      "conversations.readonly", "conversations.write", "workflows.readonly",
      "locations.readonly", "users.readonly">>

\* the state and code_challenge strings a caller may hand to the provider
ProviderStates == { <<"s1">>, <<"s", "&", "x">> }
ProviderChallenges == { <<"c1">>, <<"c", "=", "+">> }

\* GHLOAuthProvider.get_authorization_url(state, code_challenge): the same
\* params from Config.CLIENT_ID, Config.REDIRECT_URI and Config.SCOPES, which
\* the deployment sets to the values of its client; nothing is stored.
ProviderGetAuthorizationUrl(st, challenge) ==
    /\ cret' = UrlReturned("provider.get_authorization_url", ConfigScopes, st, challenge,
                           AuthUrl(client_id, redirect_uri, ConfigScopes, st, challenge))
    /\ UNCHANGED <<built, client_id, redirect_uri, code_verifier, code_challenge, state, cpc, creq,
                   cposts>>
    /\ UNCHANGED <<storeVars, apiVars, fetchVars>>

\* GHLOAuthClient.exchange_code_for_token(authorization_code, state), up to
\* the POST: the state check, the verifier check, the request.
ClientExchangeCall(code, st) ==
    /\ cpc = "idle"
    /\ IF StateDiffers(st, state)
       THEN /\ cret' = ClientReturned("exchange", code, st, NoReply, Raise(ValueErrorState))
            /\ UNCHANGED <<cpc, creq, cposts>>
       ELSE IF VerifierMissing(code_verifier)
       THEN /\ cret' = ClientReturned("exchange", code, st, NoReply, Raise(ValueErrorVerifier))
            /\ UNCHANGED <<cpc, creq, cposts>>
       ELSE /\ cposts < MaxClientPosts
            /\ cpc' = "sent"
            /\ creq' = TokenData(code, code_verifier)
            /\ cposts' = cposts + 1
            /\ cret' = ClientCalled("exchange", code, st)
    /\ UNCHANGED <<client_id, redirect_uri, code_verifier, code_challenge, state, built>>
    /\ UNCHANGED <<storeVars, apiVars, fetchVars>>

\* token_response is returned when the status is 2xx and the two keys the
\* function logs are in the body; every exception is re-raised.
ClientExchangeSucceeds(r) ==
    r.kind = "ok" /\ {"access_token", "expires_in"} \subseteq DOMAIN r.body

ClientExchangeResult(r) ==
    IF ClientExchangeSucceeds(r) THEN [kind |-> "dict", body |-> r.body]
    ELSE Raise(ExchangeError(r))

\* The response r arrives and exchange_code_for_token resumes.
ClientExchangeResume ==
    /\ cpc = "sent"
    /\ \E r \in Replies(cposts) :
         cret' = ClientReturned("exchange", creq.code, NoneStr, r, ClientExchangeResult(r))
    /\ cpc' = "idle"
    /\ creq' = NoRequest
    /\ UNCHANGED <<client_id, redirect_uri, code_verifier, code_challenge, state, cposts,
                   built>>
    /\ UNCHANGED <<storeVars, apiVars, fetchVars>>

\* -------------------------------------------------------- GHLMessageFetcher
\* An absent date: start_date or end_date None, or a message with no
\* dateAdded or one that dateutil cannot parse.
NoDate == -1

\* last_message_id None; the ids of messages are 1, 2, ...
NoId == 0

\* message_types None (or empty: `if message_types` takes both the same way)
NoTypes == <<>>

\* The instants a message's dateAdded may hold.
Dates == {1, 2, 3}
DateStrings == Dates \cup {NoDate}
Types == {"TYPE_SMS", "TYPE_CALL"}

\* datetime.min.replace(tzinfo=pytz.UTC): before every instant
DatetimeMin == 0

\* The messages a remote conversation may hold.
Messages == [dateAdded : DateStrings, type : Types]

\* The conversations of up to n messages, in the order the remote serves them;
\* a message's id is its place in that order.
RECURSIVE Conversations(_)
Conversations(n) ==
    IF n = 0 THEN { <<>> }
    ELSE LET shorter == Conversations(n - 1) IN
         shorter \cup { Append(conv, [id |-> Len(conv) + 1, dateAdded |-> m.dateAdded,
                                      type |-> m.type]) :
                          conv \in {cv \in shorter : Len(cv) = n - 1}, m \in Messages }

\* The arguments of a fetch.
StartDates == {NoDate, 2}
EndDates == {NoDate, 2}
TypeFilters == {NoTypes, <<"TYPE_SMS">>}

\* _parse_message_date
\* Faulty variant: a message without a readable date counts as the newest.
parse_message_date_newest(message) ==
    IF message.dateAdded = NoDate THEN 4 ELSE message.dateAdded

parse_message_date(message) ==
    IF message.dateAdded = NoDate THEN DatetimeMin ELSE message.dateAdded

\* Faulty variant: the end bound is exclusive.
is_within_date_range_exclusive(message_date, sd, ed) ==
    /\ ~(sd # NoDate /\ message_date < sd)
    /\ ~(ed # NoDate /\ message_date >= ed)

\* _is_within_date_range
is_within_date_range(message_date, sd, ed) ==
    /\ ~(sd # NoDate /\ message_date < sd)
    /\ ~(ed # NoDate /\ message_date > ed)

\* Faulty variant: a message older than start_date is skipped, not stopped at.
PastStartDateNever(message_date, sd) == FALSE

\* `if start_date and message_date < start_date`
PastStartDate(message_date, sd) == sd # NoDate /\ message_date < sd

\* The for loop over one page, from message i on: the messages kept, whether
\* the loop broke at the date limit, and how many messages it looked at.
RECURSIVE ProcessPage(_, _, _, _, _)
ProcessPage(page_messages, i, kept, sd, ed) ==
    IF i > Len(page_messages)
    THEN [kept |-> kept, reached |-> FALSE, looked |-> Len(page_messages)]
    ELSE LET message_date == parse_message_date(page_messages[i]) IN
         IF PastStartDate(message_date, sd)
         THEN [kept |-> kept, reached |-> TRUE, looked |-> i]
         ELSE ProcessPage(page_messages, i + 1,
                          IF is_within_date_range(message_date, sd, ed)
                          THEN Append(kept, page_messages[i]) ELSE kept,
                          sd, ed)

\* list.sort(key=...) is stable: message m goes after the last message of
\* the sorted list whose key is not greater.
RECURSIVE InsertByDate(_, _)
InsertByDate(sorted, m) ==
    IF sorted = <<>> THEN <<m>>
    ELSE IF parse_message_date(sorted[Len(sorted)]) <= parse_message_date(m)
    THEN Append(sorted, m)
    ELSE Append(InsertByDate(SubSeq(sorted, 1, Len(sorted) - 1), m),
                sorted[Len(sorted)])

RECURSIVE SortByDate(_)
\* Faulty variant: the list is returned in the order of traversal.
SortByDateSkipped(messages) == messages

\* filtered_messages.sort(key=lambda m: self._parse_message_date(m))
SortByDate(messages) ==
    IF messages = <<>> THEN <<>>
    ELSE InsertByDate(SortByDate(SubSeq(messages, 1, Len(messages) - 1)),
                      messages[Len(messages)])

\* params of _fetch_message_page: lastMessageId and type are sent only when
\* they are set.
\* Faulty variant: the cursor is never sent.
PageRequestWithoutCursor(last, limit, types) ==
    [limit |-> limit, lastMessageId |-> NoId, type |-> types]

PageRequest(last, limit, types) ==
    [limit |-> limit, lastMessageId |-> last, type |-> types]

\* The messages whose type is among types (all of them when none is asked
\* for), in their order.
RECURSIVE SelectMessages(_, _)
SelectMessages(messages, types) ==
    IF messages = <<>> THEN <<>>
    ELSE LET rest == SelectMessages(SubSeq(messages, 1, Len(messages) - 1), types)
             m == messages[Len(messages)]
         IN IF types = NoTypes \/ \E k \in 1..Len(types) : types[k] = m.type
            THEN Append(rest, m) ELSE rest

\* The page a remote that pages by lastMessageId serves for a request: the
\* next `limit` messages after the cursor, of the types asked for when
\* honour_types, with the id of its last message and whether more follow.
ServedPage(conv, request, honour_types) ==
    LET pool == SelectMessages(conv, IF honour_types THEN request.type ELSE NoTypes)
        after == SelectSeq(pool, LAMBDA m : request.lastMessageId = NoId
                                             \/ m.id > request.lastMessageId)
        page == SubSeq(after, 1, IF Len(after) < request.limit
                                 THEN Len(after) ELSE request.limit)
    IN [messages |-> page,
        lastMessageId |-> IF page = <<>> THEN NoId ELSE page[Len(page)].id,
        nextPage |-> Len(after) > Len(page)]

\* What requests.get can bring back for a request: the page served, the same
\* with the type parameter ignored, either with nextPage claimed, or with
\* nextPage claimed and no lastMessageId in the body (data.get gives None),
\* or a RequestException.
PageResponses(conv, request) ==
    LET served == { ServedPage(conv, request, TRUE), ServedPage(conv, request, FALSE) }
    IN { [kind |-> "ok", data |-> d] : d \in served }
       \cup { [kind |-> "ok", data |-> [d EXCEPT !.nextPage = TRUE]] : d \in served }
       \cup { [kind |-> "ok",
               data |-> [ServedPage(conv, request, TRUE)
                           EXCEPT !.nextPage = TRUE, !.lastMessageId = NoId]] }
       \cup { [kind |-> "error"] }

\* _fetch_message_page's return: (messages, pagination_info), or ([], {})
\* from the except clause.
fetch_message_page(response) ==
    IF response.kind = "ok"
    THEN [messages |-> response.data.messages,
          info |-> [lastMessageId |-> response.data.lastMessageId,
                    nextPage |-> response.data.nextPage]]
    ELSE [messages |-> <<>>, info |-> <<>>]

\* Faulty variant: an empty page does not end the loop.
PageIsEmptyIgnored(page_messages) == FALSE

\* `if not page_messages: break`
PageIsEmpty(page_messages) == page_messages = <<>>

NoResult == [kind |-> "none"]

\* fetch_conversation_messages_with_date_filter is called: the locals before
\* the while loop.  The remote holds any conversation.
FetchCall ==
    /\ fpc = "idle"
    /\ \E conv \in Conversations(MaxRecords), sd \in StartDates, ed \in EndDates,
          types \in TypeFilters :
         /\ collection' = conv
         /\ start_date' = sd
         /\ end_date' = ed
         /\ message_types' = types
    /\ fpc' = "loop"
    /\ filtered_messages' = <<>>
    /\ last_message_id' = NoId
    /\ has_more' = TRUE
    /\ reached_date_limit' = FALSE
    /\ total_fetched' = 0
    /\ pages_fetched' = 0
    /\ requests' = <<>>
    /\ responses' = <<>>
    /\ examined' = <<>>
    /\ fret' = NoResult
    /\ UNCHANGED <<storeVars, authVars, apiVars>>

\* One turn of the while loop: the page request, the break on an empty page,
\* the for loop over the page, the pagination update.
FetchPage ==
    /\ fpc = "loop"
    /\ has_more /\ ~reached_date_limit
    /\ Len(requests) < MaxRequests
    /\ LET request == PageRequest(last_message_id, PageLimit, message_types) IN
       /\ requests' = Append(requests, request)
       /\ \E response \in PageResponses(collection, request) :
            LET fetched == fetch_message_page(response)
                page_messages == fetched.messages
                next_page_info == fetched.info
                done == ProcessPage(page_messages, 1, filtered_messages,
                                    start_date, end_date)
            IN /\ responses' = Append(responses, response)
               /\ IF PageIsEmpty(page_messages)
                  THEN /\ fpc' = "sort"
                       /\ UNCHANGED <<filtered_messages, last_message_id, has_more,
                                      reached_date_limit, total_fetched, pages_fetched,
                                      examined>>
                  ELSE /\ fpc' = "loop"
                       /\ pages_fetched' = pages_fetched + 1
                       /\ total_fetched' = total_fetched + Len(page_messages)
                       /\ filtered_messages' = done.kept
                       /\ reached_date_limit' = done.reached
                       /\ examined' = examined \o SubSeq(page_messages, 1, done.looked)
                       /\ has_more' = Get(next_page_info, "nextPage", FALSE)
                       /\ last_message_id' = Get(next_page_info, "lastMessageId", NoId)
    /\ UNCHANGED <<collection, start_date, end_date, message_types, fret>>
    /\ UNCHANGED <<storeVars, authVars, apiVars>>

\* FetchReturn with total_fetched reporting the records the loop looked at.
FetchReturnReportingExamined ==
    /\ \/ fpc = "sort"
       \/ fpc = "loop" /\ ~(has_more /\ ~reached_date_limit)
    /\ fpc' = "done"
    /\ filtered_messages' = SortByDate(filtered_messages)
    /\ fret' = [kind |-> "return",
                messages |-> SortByDate(filtered_messages),
                metadata |-> [total_fetched |-> Len(examined),
                              total_filtered |-> Len(SortByDate(filtered_messages)),
                              pages_fetched |-> pages_fetched,
                              filters_applied |-> [start_date |-> start_date,
                                                   end_date |-> end_date,
                                                   message_types |-> message_types]]]
    /\ UNCHANGED <<collection, start_date, end_date, message_types, last_message_id,
                   has_more, reached_date_limit, total_fetched, pages_fetched,
                   requests, responses, examined>>
    /\ UNCHANGED <<storeVars, authVars, apiVars>>

\* The while loop ends (its test fails, or the break): the sort, the metadata,
\* the return.
FetchReturn ==
    /\ \/ fpc = "sort"
       \/ fpc = "loop" /\ ~(has_more /\ ~reached_date_limit)
    /\ fpc' = "done"
    /\ filtered_messages' = SortByDate(filtered_messages)
    /\ fret' = [kind |-> "return",
                messages |-> SortByDate(filtered_messages),
                metadata |-> [total_fetched |-> total_fetched,
                              total_filtered |-> Len(SortByDate(filtered_messages)),
                              pages_fetched |-> pages_fetched,
                              filters_applied |-> [start_date |-> start_date,
                                                   end_date |-> end_date,
                                                   message_types |-> message_types]]]
    /\ UNCHANGED <<collection, start_date, end_date, message_types, last_message_id,
                   has_more, reached_date_limit, total_fetched, pages_fetched,
                   requests, responses, examined>>
    /\ UNCHANGED <<storeVars, authVars, apiVars>>

\* main(): what the command line run leaves behind, from its arguments and
\* the outcome of fetch_messages_with_date_filter. The local
\* `parser = argparse.ArgumentParser(...)` hides the date parser, so
\* `parser.parse(args.start_date)` raises AttributeError before the fetch when
\* a date argument is given; an exception leaving main ends the process with
\* a traceback and exit status 1; otherwise the messages are written out and
\* main ends in `return 0`.
ExitTraceback == 1
ExitSuccess == 0
main(sd, ed, result) ==
    IF sd # NoDate \/ ed # NoDate
    THEN [exit |-> ExitTraceback, output |-> <<>>]
    ELSE IF result.kind = "return"
         THEN [exit |-> ExitSuccess, output |-> result.messages]
         ELSE [exit |-> ExitTraceback, output |-> <<>>]

\* The tool layer. A tool awaits one client coroutine inside
\* `try: ... except Exception as e:`; asyncio.CancelledError is a
\* BaseException and passes through either server's handler.
\*
\* fastmcp_server.py, search_contacts / create_contact / get_opportunities:
\* the handler logs and re-raises, the data is returned as it is.
search_contacts(v) == IF v.kind = "raise" THEN v ELSE [kind |-> "list"]

\* fastmcp_static_server.py, search_contacts (the other tools alike):
\* GHLStaticClient.get_contacts sends the request with the static key and
\* raise_for_status; the handler returns a dict with status "error".
static_search_contacts(resp) ==
    LET v == UpstreamResult(resp)
    IN IF v.kind = "raise"
       THEN IF resp.kind = "cancelled" THEN v
            ELSE [kind |-> "dict", status |-> "error",
                  message |-> <<"Search failed: ", v.exc>>]
       ELSE [kind |-> "dict", status |-> "success"]

\* fastmcp_server.py, get_oauth_status: the token stored for "default_user",
\* or authenticated False.
get_oauth_status(tk) ==
    LET tok == get_token(tk, DEFAULT_USER)
    IN IF tok # NoToken
       THEN [authenticated |-> TRUE, expires_at |-> tok.expires_at, scope |-> tok.scope,
             location_id |-> tok.location_id]
       ELSE [authenticated |-> FALSE,
             authorization_url |-> "Use /oauth/authorize endpoint"]

InitStore ==
    /\ now = 0
    /\ tokens = <<>>
    /\ pc = [c \in Tasks |-> "idle"]
    /\ op = [c \in Tasks |-> "none"]
    /\ user = [c \in Tasks |-> DEFAULT_USER]
    /\ token = [c \in Tasks |-> NoToken]
    /\ ret = NoReturn
    /\ sent = [c \in Tasks |-> 0]
    /\ posts = 0
    /\ issued = 0
    /\ ticks = 0
    /\ arrived = [c \in Tasks |-> NoReply]

\* GHLOAuthClient(client_id, client_secret, redirect_uri)
InitAuthOf(cids, ruris) ==
    /\ client_id \in cids
    /\ redirect_uri \in ruris
    /\ code_verifier = NoneStr
    /\ code_challenge = NoneStr
    /\ state = NoneStr
    /\ cpc = "idle"
    /\ creq = NoRequest
    /\ cret = NoReturn
    /\ cposts = 0
    /\ built = <<>>

\* One client, with the default redirect_uri.
InitAuth == InitAuthOf({<<"id">>},
                       {<<"http", ":", "/", "/", "localhost", ":", "8000", "/", "oauth", "/",
                          "callback">>})

InitApi ==
    /\ hdr = [c \in Tasks |-> NoHeaders]
    /\ aret = NoReturn

\* No fetch has been called.
InitFetch ==
    /\ collection = <<>>
    /\ start_date = NoDate
    /\ end_date = NoDate
    /\ message_types = NoTypes
    /\ fpc = "idle"
    /\ filtered_messages = <<>>
    /\ last_message_id = NoId
    /\ has_more = TRUE
    /\ reached_date_limit = FALSE
    /\ total_fetched = 0
    /\ pages_fetched = 0
    /\ requests = <<>>
    /\ responses = <<>>
    /\ examined = <<>>
    /\ fret = NoResult

Init == InitStore /\ InitAuth /\ InitApi /\ InitFetch

\* The same with any client_id and redirect_uri.
InitAnyClient == InitStore /\ InitAuthOf(ClientIds, RedirectUris) /\ InitApi /\ InitFetch

Next ==
    \/ \E c \in Tasks, u \in Users : RefreshTokenCall(c, u)
    \/ \E c \in Tasks : RefreshTokenResume(c)
    \/ \E c \in Tasks : ExchangeCall(c)
    \/ \E c \in Tasks : ExchangeResume(c)
    \/ \E c \in Tasks : Cancel(c)
    \/ Tick

Spec == Init /\ [][Next]_vars

\* The same store, with the issuing of a refreshed token and the arrival of
\* its response as two steps.
NextRace ==
    \/ \E c \in Tasks, u \in Users : RefreshTokenCall(c, u)
    \/ \E c \in Tasks : Serve(c)
    \/ \E c \in Tasks : RefreshTokenReceive(c)
    \/ \E c \in Tasks : ExchangeCall(c)
    \/ \E c \in Tasks : ExchangeResume(c)
    \/ \E c \in Tasks : Cancel(c)
    \/ Tick

SpecRace == Init /\ [][NextRace]_vars

\* The tasks run GHLApiClient's coroutines, which are the callers of
\* refresh_token in the server, and the provider's exchange.
NextApi ==
    \/ \E c \in ApiTasks, u \in Users, m \in Methods : ApiCall(c, u, m)
    \/ \E c \in ApiTasks : ApiRefreshResume(c)
    \/ \E c \in ApiTasks : UpstreamResume(c)
    \/ \E c \in ApiTasks : ExchangeCall(c)
    \/ \E c \in ApiTasks : ExchangeResume(c)
    \/ \E c \in ApiTasks : Cancel(c)
    \/ Tick

SpecApi == Init /\ [][NextApi]_vars

NextAuth ==
    \/ GetAuthorizationUrl
    \/ \E st \in ProviderStates, challenge \in ProviderChallenges :
         ProviderGetAuthorizationUrl(st, challenge)
    \/ \E code \in Codes, st \in ReceivedStates : ClientExchangeCall(code, st)
    \/ ClientExchangeResume

SpecAuth == InitAnyClient /\ [][NextAuth]_vars

NextFetch == FetchCall \/ FetchPage \/ FetchReturn

SpecFetch == Init /\ [][NextFetch]_vars

\* ================================================================== claims
\* The 5-minute skew margin of the specification, in seconds.
FiveMinutes == 5 * 60

\* The step is a call of refresh_token(u) by task c: the task was idle and
\* the step is a call or an immediate return of that coroutine.
IsRefreshCall(c, u) ==
    /\ pc[c] = "idle"
    /\ ret'.kind \in {"call", "return"}
    /\ ret'.op = "refresh"
    /\ ret'.task = c
    /\ ret'.user = u

\* The step is the end of a refresh_token invocation that had sent its POST
\* and resumed with a response.
IsRefreshResume ==
    /\ ret'.kind = "return"
    /\ ret'.op = "refresh"
    /\ ret'.reply # NoReply

\* A response that makes a refresh fail: a network error, a non-2xx status,
\* or a body that lacks a required field.
FailedReply(r) ==
    \/ r.kind \in {"network_error", "http_error"}
    \/ r.kind = "ok" /\ ~({"access_token", "expires_in"} \subseteq DOMAIN r.body)

\* u's credential is new or replaced in this step.
Replaced(u) == u \notin DOMAIN tokens \/ tokens'[u] # tokens[u]

\* C1: exchange_code_for_token called with a received state that differs from
\* self.state raises the state-mismatch error and sends no POST to the token
\* endpoint, for every code and every received state.
C1_StateMismatchFailsFast ==
    [][ ( /\ cpc = "idle"
          /\ cret'.kind \in {"call", "return"}
          /\ cret'.op = "exchange"
          /\ cret'.state # state )
        => ( /\ cret'.kind = "return"
             /\ cret'.value = Raise(ValueErrorState)
             /\ cposts' = cposts
             /\ cpc' = "idle"
             /\ creq' = creq ) ]_vars

\* An attempt is in flight and a callback presented another attempt's state.
W1_StateMismatch ==
    /\ cret.kind = "return"
    /\ cret.op = "exchange"
    /\ cret.state \in StateValues
    /\ state \in StateValues
    /\ cret.state # state
    /\ code_verifier # NoneStr
    /\ cret.value = Raise(ValueErrorState)

\* C2: at most one refresh request per principal is in flight at any time.
X2_SingleFlight ==
    \A u \in Users :
        Cardinality({c \in Tasks : pc[c] = "sent" /\ op[c] = "refresh" /\ user[c] = u}) <= 1

\* C3: when the refresh fails (network error, non-2xx, body missing a
\* required field) refresh_token returns None and no step of the invocation
\* touches the store: the credential it found stays as it was.
C3_FailedRefreshKeepsCredential ==
    [][ /\ (IsRefreshResume /\ FailedReply(ret'.reply))
           => (ret'.value = ReturnNone /\ tokens' = tokens)
        /\ \A c \in Tasks, u \in Users : IsRefreshCall(c, u) => tokens' = tokens ]_vars

W3_RefreshFailed ==
    /\ ret.kind = "return"
    /\ ret.op = "refresh"
    /\ ret.sent = 1
    /\ ret.reply.kind = "ok"
    /\ "expires_in" \notin DOMAIN ret.reply.body
    /\ ret.value = ReturnNone
    /\ ret.user \in DOMAIN tokens
    /\ tokens[ret.user] = ret.token

TokenFields ==
    {"access_token", "refresh_token", "token_type", "expires_in", "expires_at",
     "scope", "location_id", "user_id"}

\* C4: the store changes only by one whole replacement: a credential that is
\* new or replaced in a step has every field, takes access_token, expires_in
\* and expires_at from the one response received in that step and every other
\* field from that response or from the credential the invocation read; no
\* other principal's credential changes, none is removed, and a cancelled
\* invocation changes nothing.
C4_AtomicReplacement ==
    [][ /\ DOMAIN tokens \subseteq DOMAIN tokens'
        /\ \A u \in DOMAIN tokens' :
             Replaced(u) =>
               /\ ret'.kind = "return"
               /\ ret'.reply.kind = "ok"
               /\ {"access_token", "expires_in"} \subseteq DOMAIN ret'.reply.body
               /\ DOMAIN tokens'[u] = TokenFields
               /\ tokens'[u].access_token = ret'.reply.body.access_token
               /\ tokens'[u].expires_in = ret'.reply.body.expires_in
               /\ tokens'[u].expires_at = now + ret'.reply.body.expires_in
               /\ tokens'[u].refresh_token =
                    IF "refresh_token" \in DOMAIN ret'.reply.body
                    THEN ret'.reply.body.refresh_token ELSE ret'.token.refresh_token
               /\ \A v \in DOMAIN tokens : v # u => tokens'[v] = tokens[v]
        /\ (ret'.kind = "return" /\ ret'.value = Raise("CancelledError"))
             => tokens' = tokens ]_vars

\* A refresh replaced a credential while another refresh of the same
\* principal was suspended.
W4_ReplacedWhileOtherSuspended ==
    /\ ret.kind = "return"
    /\ ret.op = "refresh"
    /\ ret.value.kind = "token"
    /\ tokens[ret.user] = ret.value.token
    /\ \E c \in Tasks : pc[c] = "sent" /\ op[c] = "refresh" /\ user[c] = ret.user

\* C5: with a valid credential stored (now < expires_at - 5 minutes)
\* refresh_token sends no POST, returns that credential and leaves the store
\* unchanged.
C5_ValidTokenReturnedAsIs ==
    [][ \A c \in Tasks, u \in Users :
          ( /\ IsRefreshCall(c, u)
            /\ u \in DOMAIN tokens
            /\ now < tokens[u].expires_at - FiveMinutes )
          => ( /\ ret'.kind = "return"
               /\ ret'.value = ReturnToken(tokens[u])
               /\ ret'.sent = 0
               /\ posts' = posts
               /\ pc'[c] = "idle"
               /\ tokens' = tokens ) ]_vars

W5_ValidReturned ==
    /\ ret.kind = "return"
    /\ ret.op = "refresh"
    /\ ret.sent = 0
    /\ ret.value.kind = "token"
    /\ ret.user \in DOMAIN tokens
    /\ ret.value.token = tokens[ret.user]
    /\ ret.value.token.expires_at = now + 3600

\* C6: with a stale credential stored (now >= expires_at - 5 minutes) a
\* refresh_token invocation sends exactly one POST: the call sends it, and
\* the invocation ends on its response (or its cancellation) without another.
C6_StaleTokenOneRefresh ==
    [][ /\ \A c \in Tasks, u \in Users :
             ( /\ IsRefreshCall(c, u)
               /\ u \in DOMAIN tokens
               /\ now >= tokens[u].expires_at - FiveMinutes )
             => ( /\ ret'.kind = "call"
                  /\ pc'[c] = "sent"
                  /\ sent'[c] = 1
                  /\ posts' = posts + 1 )
        /\ \A c \in Tasks :
             (pc[c] = "sent" /\ op[c] = "refresh")
             => \/ (pc'[c] = "sent" /\ sent'[c] = 1)
                \/ ( /\ pc'[c] = "idle"
                     /\ ret'.kind = "return"
                     /\ ret'.task = c
                     /\ ret'.sent = 1
                     /\ posts' = posts ) ]_vars

\* The credential expires two minutes from now and the refresh request is out.
W6_StaleRefreshSent ==
    /\ ret.kind = "call"
    /\ ret.op = "refresh"
    /\ ret.token.expires_at = now + 120
    /\ pc[ret.task] = "sent"
    /\ sent[ret.task] = 1

\* C7: with no credential stored for the principal refresh_token returns
\* None, sends no POST and leaves the store unchanged.
C7_NoCredentialAbsent ==
    [][ \A c \in Tasks, u \in Users :
          (IsRefreshCall(c, u) /\ u \notin DOMAIN tokens)
          => ( /\ ret'.kind = "return"
               /\ ret'.value = ReturnNone
               /\ posts' = posts
               /\ pc'[c] = "idle"
               /\ tokens' = tokens ) ]_vars

\* Another principal has a credential, the one asked for has none.
W7_NoCredential ==
    /\ ret.kind = "return"
    /\ ret.op = "refresh"
    /\ ret.user \notin DOMAIN tokens
    /\ DOMAIN tokens # {}
    /\ ret.value = ReturnNone

\* C8: after a successful refresh the credential stored for the principal,
\* which is the one returned, has the response's access_token, the response's
\* refresh_token when the response has one and else the refresh_token of the
\* credential the invocation read, and that credential's location_id and
\* user_id.
C8_RefreshCarriesForward ==
    [][ (IsRefreshResume /\ ~FailedReply(ret'.reply))
        => /\ ret'.value.kind = "token"
           /\ ret'.user \in DOMAIN tokens'
           /\ tokens'[ret'.user] = ret'.value.token
           /\ ret'.value.token.access_token = ret'.reply.body.access_token
           /\ ret'.value.token.refresh_token =
                IF "refresh_token" \in DOMAIN ret'.reply.body
                THEN ret'.reply.body.refresh_token ELSE ret'.token.refresh_token
           /\ ret'.value.token.location_id = ret'.token.location_id
           /\ ret'.value.token.user_id = ret'.token.user_id ]_vars

\* The response omitted refresh_token and the prior one was carried forward.
W8_RefreshTokenCarried ==
    /\ ret.kind = "return"
    /\ ret.op = "refresh"
    /\ ret.value.kind = "token"
    /\ ret.reply.kind = "ok"
    /\ "refresh_token" \notin DOMAIN ret.reply.body
    /\ ret.value.token.refresh_token = ret.token.refresh_token
    /\ ret.value.token.access_token # ret.token.access_token
    /\ tokens[ret.user] = ret.value.token

\* C9: a credential that enters the store, by exchange or by refresh, has
\* expires_at = the time its response was received + the response's
\* expires_in.
C9_ExpiresAtFromReceipt ==
    [][ \A u \in DOMAIN tokens' :
          Replaced(u) =>
            /\ ret'.kind = "return"
            /\ ret'.reply.kind = "ok"
            /\ "expires_in" \in DOMAIN ret'.reply.body
            /\ tokens'[u].expires_at = now + ret'.reply.body.expires_in ]_vars

\* A refresh at a later time replaced a credential with another expires_at.
W9_RefreshedLater ==
    /\ ret.kind = "return"
    /\ ret.op = "refresh"
    /\ ret.value.kind = "token"
    /\ ret.reply.kind = "ok"
    /\ now > 0
    /\ tokens[ret.user].expires_at = now + ret.reply.body.expires_in
    /\ tokens[ret.user].expires_at # ret.token.expires_at

\* C10: after a successful code exchange the store holds the new credential
\* under the userId of the response, or under 'default_user' when the
\* response has none, and the credential returned is the stored one.
C10_ExchangeStoresUnderPrincipal ==
    [][ ( /\ ret'.kind = "return"
          /\ ret'.op = "exchange"
          /\ ret'.reply.kind = "ok"
          /\ {"access_token", "refresh_token", "expires_in", "scope"}
               \subseteq DOMAIN ret'.reply.body )
        => LET key == IF "userId" \in DOMAIN ret'.reply.body
                      THEN ret'.reply.body.userId ELSE "default_user"
           IN /\ ret'.value.kind = "token"
              /\ key \in DOMAIN tokens'
              /\ tokens'[key] = ret'.value.token
              /\ ret'.value.token.access_token = ret'.reply.body.access_token
              /\ ret'.value.token.user_id = key
              /\ \A v \in DOMAIN tokens : v # key => tokens'[v] = tokens[v] ]_vars

\* The issuer named a principal and the credential is stored under it.
W10_StoredUnderIssuerId ==
    /\ ret.kind = "return"
    /\ ret.op = "exchange"
    /\ ret.value.kind = "token"
    /\ "userId" \in DOMAIN ret.reply.body
    /\ ret.reply.body.userId # DEFAULT_USER
    /\ ret.reply.body.userId \in DOMAIN tokens
    /\ tokens[ret.reply.body.userId] = ret.value.token

\* C11: one code exchange sends one POST to the token endpoint, when it is
\* called; the invocation ends on the response (or the cancellation) without
\* another POST, and on a non-2xx response or a transport failure it ends by
\* raising and the store is left as it was.
C11_ExchangeOnePostNoRetry ==
    [][ /\ \A c \in Tasks :
             (pc[c] = "idle" /\ ret'.kind = "call" /\ ret'.op = "exchange" /\ ret'.task = c)
             => (pc'[c] = "sent" /\ sent'[c] = 1 /\ posts' = posts + 1 /\ tokens' = tokens)
        /\ \A c \in Tasks :
             (pc[c] = "sent" /\ op[c] = "exchange")
             => \/ (pc'[c] = "sent" /\ op'[c] = "exchange" /\ sent'[c] = 1)
                \/ ( /\ pc'[c] = "idle"
                     /\ ret'.kind = "return"
                     /\ ret'.op = "exchange"
                     /\ ret'.task = c
                     /\ ret'.sent = 1
                     /\ posts' = posts
                     /\ ret'.reply.kind \in {"http_error", "network_error"}
                          => (ret'.value.kind = "raise" /\ tokens' = tokens) ) ]_vars

\* An exchange got a non-2xx response while the store held a credential.
W11_ExchangeRejected ==
    /\ ret.kind = "return"
    /\ ret.op = "exchange"
    /\ ret.sent = 1
    /\ ret.reply.kind = "http_error"
    /\ ret.value = Raise("HTTPStatusError")
    /\ DOMAIN tokens # {}

\* C12: exchange_code_for_token called while no PKCE attempt is in flight
\* (no authorization URL was built: self.code_verifier is None) raises the
\* verifier-missing error, for every received state, and sends no POST.
X12_NoAttemptVerifierMissing ==
    [][ ( /\ cpc = "idle"
          /\ cret'.kind \in {"call", "return"}
          /\ cret'.op = "exchange"
          /\ code_verifier = NoneStr )
        => ( /\ cret'.kind = "return"
             /\ cret'.value = Raise(ValueErrorVerifier)
             /\ cposts' = cposts
             /\ cpc' = "idle" ) ]_vars

\* C13: a PKCE attempt is consumed once: when an exchange has used it (its
\* POST went out and the token response came back), an exchange that follows
\* with the same state, no authorization URL having been built in between,
\* fails and sends nothing, so the verifier is not sent a second time.
X13_AttemptConsumedOnce ==
    [][ ( /\ cret.kind = "return"
          /\ cret.op = "exchange"
          /\ cret.value.kind = "dict"
          /\ cpc = "idle"
          /\ cret'.kind \in {"call", "return"}
          /\ cret'.op = "exchange"
          /\ cret'.state = state )
        => ( /\ cret'.kind = "return"
             /\ cret'.value.kind = "raise"
             /\ cposts' = cposts
             /\ cpc' = "idle" ) ]_vars

\* C14: when refresh_token returns None to _get_headers (no credential
\* stored, or the refresh failed) the API coroutine ends by raising the
\* no-valid-token error and no upstream request is sent: none is in the step
\* and the task has none in flight after it.
C14_AbsentIsUnauthenticated ==
    ( /\ aret.kind # "none"
      /\ ret.kind = "return"
      /\ ret.op = "refresh"
      /\ ret.value = ReturnNone )
    => ( /\ aret.kind = "return"
         /\ aret.task = ret.task
         /\ aret.user = ret.user
         /\ aret.value = Raise(<<"ValueError: No valid token for user", ret.user>>)
         /\ pc[ret.task] = "idle"
         /\ hdr[ret.task] = NoHeaders )

\* The refresh of a stale credential failed and the API call was refused.
W14_RefreshFailedUnauthenticated ==
    /\ aret.kind = "return"
    /\ ret.kind = "return"
    /\ ret.op = "refresh"
    /\ ret.sent = 1
    /\ ret.reply.kind = "http_error"
    /\ ret.value = ReturnNone
    /\ aret.value.kind = "raise"
    /\ ret.user \in DOMAIN tokens

\* C15: the upstream request sent in a step carries as bearer the
\* access_token of the credential refresh_token returned to _get_headers in
\* that step, for the call's principal: it is the access_token stored for that
\* principal at that moment, and when the call refreshed, the response's
\* access_token and not the one the refresh replaced.  A request in flight
\* keeps the headers it was sent with.
C15_BearerIsFreshToken ==
    /\ aret.kind = "request"
       => /\ ret.kind = "return"
          /\ ret.op = "refresh"
          /\ ret.task = aret.task
          /\ ret.user = aret.user
          /\ ret.value.kind = "token"
          /\ aret.fresh = ret.value
          /\ aret.request.headers.Authorization
               = <<"Bearer", ret.value.token.access_token>>
          /\ aret.user \in DOMAIN tokens
          /\ aret.request.headers.Authorization
               = <<"Bearer", tokens[aret.user].access_token>>
          /\ \A u \in DOMAIN tokens \ {aret.user} :
               aret.request.headers.Authorization
                 # <<"Bearer", tokens[u].access_token>>
          /\ ret.reply # NoReply
               => /\ ret.reply.kind = "ok"
                  /\ aret.request.headers.Authorization
                       = <<"Bearer", ret.reply.body.access_token>>
                  /\ aret.request.headers.Authorization
                       # <<"Bearer", ret.token.access_token>>
          /\ pc[aret.task] = "upstream"
          /\ hdr[aret.task] = aret.request.headers
    /\ \A c \in Tasks : (pc[c] = "upstream") <=> (hdr[c] # NoHeaders)

\* The call refreshed a stale credential whose refresh_token the response
\* did not renew, while another principal has a credential too, and sent the
\* upstream request with the new access_token.
W15_RequestAfterRefresh ==
    /\ aret.kind = "request"
    /\ ret.kind = "return"
    /\ ret.reply # NoReply
    /\ ret.value.kind = "token"
    /\ ret.value.token.refresh_token # ret.value.token.access_token
    /\ Cardinality(DOMAIN tokens) = 2
    /\ hdr[aret.task].Authorization = <<"Bearer", ret.value.token.access_token>>

\* The instant of a message; a message without a readable date counts as
\* older than every instant.
TimestampOf(m) == IF m.dateAdded = NoDate THEN 0 ELSE m.dateAdded

\* The fetch has looked at a message older than start_date.
SawOlderThanStart ==
    /\ start_date # NoDate
    /\ \E i \in 1..Len(examined) :
         TimestampOf(examined[i]) < start_date

\* C16: in a fetch with start_date given, the first message older than
\* start_date that the loop looks at is the last one it looks at, in that page
\* and in the fetch; it is not retained, and no page is requested after it.
C16_StopsAtStartDate ==
    [][ /\ start_date' # NoDate
           => \A i \in 1..Len(examined') :
                TimestampOf(examined'[i]) < start_date'
                => /\ i = Len(examined')
                   /\ \A k \in 1..Len(filtered_messages') :
                        filtered_messages'[k] # examined'[i]
        /\ SawOlderThanStart
           => (examined' = examined /\ requests' = requests
               /\ filtered_messages' = SortByDate(filtered_messages)) ]_vars

\* The fetch stopped in the middle of the first page, at a message older than
\* start_date, though the remote had said that more pages follow.
W16_StoppedMidPage ==
    /\ fpc = "done"
    /\ SawOlderThanStart
    /\ Len(requests) = 1
    /\ Len(examined) < total_fetched
    /\ has_more
    /\ Len(collection) = MaxRecords

\* The messages of the conversation that are of the types asked for.
RemoteRecords ==
    { collection[i] : i \in { k \in 1..Len(collection) :
          \/ message_types = <<>>
          \/ \E t \in 1..Len(message_types) : message_types[t] = collection[k].type } }

\* The remote serves newest-first: no message is older than one after it.
NewestFirst ==
    \A i, j \in 1..Len(collection) :
        (i < j /\ collection[i] \in RemoteRecords /\ collection[j] \in RemoteRecords)
        => TimestampOf(collection[i]) >= TimestampOf(collection[j])

\* Every response so far was the page the remote holds for the request.
RemoteAnsweredTruly ==
    \A i \in 1..Len(responses) :
        responses[i] = [kind |-> "ok", data |-> ServedPage(collection, requests[i], TRUE)]

\* C17: for a remote that serves its messages newest-first, the messages
\* returned are, each once, exactly the remote's messages with
\* start_date <= timestamp <= end_date, the bounds included and an absent
\* bound not bounding.
C17_ExactlyTheDateRange ==
    (fpc = "done" /\ NewestFirst /\ RemoteAnsweredTruly)
    => /\ { fret.messages[i] : i \in 1..Len(fret.messages) }
           = { m \in RemoteRecords :
                 /\ (start_date = NoDate \/ start_date <= TimestampOf(m))
                 /\ (end_date = NoDate \/ TimestampOf(m) <= end_date) }
       /\ \A i, j \in 1..Len(fret.messages) :
            fret.messages[i] = fret.messages[j] => i = j

\* Three messages at 3, 2, 1 in two pages, start_date = end_date = 2: the
\* message at 3 was passed over and the one at 2 returned.
W17_SkippedNewerKeptBound ==
    /\ fpc = "done"
    /\ NewestFirst
    /\ RemoteAnsweredTruly
    /\ start_date = 2
    /\ end_date = 2
    /\ Len(collection) = 3
    /\ TimestampOf(collection[1]) = 3
    /\ TimestampOf(collection[3]) = 1
    /\ Len(requests) = 2
    /\ Len(fret.messages) = 1
    /\ TimestampOf(fret.messages[1]) = 2

\* C18: when message_types is given, every message returned has a type that
\* is in message_types, whatever the remote sent.
X18_ReturnedTypesInFilter ==
    (fpc = "done" /\ message_types # <<>>)
    => \A i \in 1..Len(fret.messages) :
         \E t \in 1..Len(message_types) : message_types[t] = fret.messages[i].type

\* How many times m occurs in seq.
Occurrences(seq, m) == Cardinality({ i \in 1..Len(seq) : seq[i] = m })

\* C19: the sequence returned is ascending by timestamp and holds the
\* messages retained during the traversal, each as many times as retained.
C19_SortedPermutation ==
    [][ (fpc # "done" /\ fpc' = "done")
        => /\ fret'.kind = "return"
           /\ \A i \in 1..(Len(fret'.messages) - 1) :
                TimestampOf(fret'.messages[i]) <= TimestampOf(fret'.messages[i + 1])
           /\ Len(fret'.messages) = Len(filtered_messages)
           /\ \A i \in 1..Len(filtered_messages) :
                Occurrences(fret'.messages, filtered_messages[i])
                  = Occurrences(filtered_messages, filtered_messages[i]) ]_vars

\* Two messages met newest first came back oldest first.
W19_OrderReversed ==
    /\ fpc = "done"
    /\ Len(fret.messages) >= 2
    /\ Len(examined) >= 2
    /\ TimestampOf(examined[1]) > TimestampOf(examined[2])
    /\ fret.messages[1] = examined[2]
    /\ fret.messages[2] = examined[1]

\* The step received a page with no messages in it.
GotEmptyPage ==
    /\ Len(responses') = Len(responses) + 1
    /\ responses'[Len(responses')].kind = "ok"
    /\ responses'[Len(responses')].data.messages = <<>>

\* C20: a page request that brings back zero messages ends the loop, also
\* when the response before it said that more pages follow: nothing is added
\* to the retained messages, no page is requested after it, and the fetch
\* returns the retained messages.
C20_EmptyPageEndsFetch ==
    [][ /\ GotEmptyPage
           => /\ fpc' = "sort"
              /\ filtered_messages' = filtered_messages
              /\ examined' = examined
        /\ fpc = "sort"
           => /\ fpc' = "done"
              /\ requests' = requests
              /\ fret'.kind = "return"
              /\ Len(fret'.messages) = Len(filtered_messages)
              /\ \A i \in 1..Len(filtered_messages) :
                   Occurrences(fret'.messages, filtered_messages[i])
                     = Occurrences(filtered_messages, filtered_messages[i]) ]_vars

\* The first response said more pages follow, the second page was empty, and
\* the fetch returned what the first page gave.
W20_EmptyPageAfterMoreClaimed ==
    /\ fpc = "done"
    /\ Len(responses) = 2
    /\ responses[1].kind = "ok"
    /\ responses[1].data.nextPage
    /\ responses[2].kind = "ok"
    /\ responses[2].data.messages = <<>>
    /\ fret.kind = "return"
    /\ Len(fret.messages) = 2
    /\ fret.metadata.pages_fetched = 1

\* C21: when the request for a page of a fetch fails, the fetch ends in a
\* fetch-level error, the command line run outputs none of the records
\* accumulated before the failure and its exit status is non-zero.
\* _fetch_message_page catches the RequestException and returns ([], {}), which
\* the loop takes for an empty page: the fetch returns what it had.
PageRequestFailed == \E i \in 1..Len(responses) : responses[i].kind = "error"

X21_FailedPageIsFetchError ==
    (fpc = "done" /\ PageRequestFailed)
        => /\ fret.kind = "raise"
           /\ main(start_date, end_date, fret).exit # ExitSuccess
           /\ main(start_date, end_date, fret).output = <<>>

\* C22 as stated: in the metadata returned by fetch, total_filtered is the
\* length of the returned sequence, pages_fetched the number of non-empty
\* pages received, total_fetched the number of records the filter loop
\* examined, and total_filtered <= total_fetched, also when the loop stopped
\* in the middle of a page.
NonEmptyPagesReceived ==
    Cardinality({ i \in 1..Len(responses) :
                    fetch_message_page(responses[i]).messages # <<>> })

RECURSIVE RecordsReceived(_)
RecordsReceived(n) ==
    IF n = 0 THEN 0
    ELSE RecordsReceived(n - 1) + Len(fetch_message_page(responses[n]).messages)

X22_TotalFetchedIsExamined ==
    fpc = "done"
        => /\ fret.metadata.total_filtered = Len(fret.messages)
           /\ fret.metadata.pages_fetched = NonEmptyPagesReceived
           /\ fret.metadata.total_fetched = Len(examined)
           /\ fret.metadata.total_filtered <= fret.metadata.total_fetched

\* C22 amended: total_fetched is the number of records received, the sum of
\* the lengths of the pages; it is the number examined unless the loop stopped
\* at a record older than start_date, and then it is at least that number. The
\* other three relations hold as stated.
C22_MetadataCounts ==
    fpc = "done"
        => /\ fret.metadata.total_filtered = Len(fret.messages)
           /\ fret.metadata.pages_fetched = NonEmptyPagesReceived
           /\ fret.metadata.total_fetched = RecordsReceived(Len(responses))
           /\ Len(examined) <= fret.metadata.total_fetched
           /\ ~reached_date_limit => Len(examined) = fret.metadata.total_fetched
           /\ fret.metadata.total_filtered <= Len(examined)
           /\ fret.metadata.total_filtered <= fret.metadata.total_fetched

W22_StoppedMidSecondPage ==
    /\ fpc = "done"
    /\ reached_date_limit
    /\ fret.metadata.pages_fetched = 2
    /\ Len(examined) < fret.metadata.total_fetched
    /\ fret.metadata.total_filtered > 0

\* C23: every tool call of either server whose internal operation fails
\* yields a response that carries an error status flag and a message; no raw
\* exception crosses the tool boundary. (Cancellation is left aside.)
\* The static-token server's tools do so; the OAuth server's API tools end
\* their handler in `raise`.
IsErrorResponse(x) ==
    /\ x.kind = "dict"
    /\ x.status = "error"
    /\ "message" \in DOMAIN x

X23_ToolFailureIsErrorResponse ==
    (aret.kind = "return" /\ aret.value.kind = "raise"
     /\ aret.response.kind # "cancelled")
        => /\ IsErrorResponse(search_contacts(aret.value))
           /\ aret.response # NoReply
                => IsErrorResponse(static_search_contacts(aret.response))

\* Reading a URL back, as urlparse and parse_qsl(keep_blank_values=True) do:
\* the query is what follows the '?', its fields are separated by '&', a
\* field's key and value by its first '=', and both are unquoted.
RECURSIVE SplitAt(_, _)
SplitAt(s, sep) ==
    IF \A i \in 1..Len(s) : s[i] # sep THEN <<s>>
    ELSE LET i == CHOOSE j \in 1..Len(s) :
                    s[j] = sep /\ \A k \in 1..(j - 1) : s[k] # sep
         IN <<SubSeq(s, 1, i - 1)>> \o SplitAt(SubSeq(s, i + 1, Len(s)), sep)

unquote_plus(s) ==
    [i \in 1..Len(s) |->
        CASE s[i] = "+" -> " "
          [] s[i] = "%26" -> "&"
          [] s[i] = "%3D" -> "="
          [] s[i] = "%2B" -> "+"
          [] s[i] = "%25" -> "%"
          [] s[i] = "%3A" -> ":"
          [] s[i] = "%2F" -> "/"
          [] s[i] = "%3F" -> "?"
          [] OTHER -> s[i]]

QueryOf(url) == SubSeq(url, 3, Len(url))

ParsedQuery(url) ==
    LET fields == SplitAt(QueryOf(url), "&")
    IN [i \in 1..Len(fields) |->
          LET kv == SplitAt(fields[i], "=")
          IN <<unquote_plus(kv[1]),
               IF Len(kv) >= 2 THEN unquote_plus(kv[2]) ELSE <<>>, Len(kv)>>]

QueryKeys(url) == [i \in 1..Len(ParsedQuery(url)) |-> ParsedQuery(url)[i][1]]

\* the value of the only field named key
QueryValue(url, key) ==
    LET q == ParsedQuery(url)
        at == { i \in 1..Len(q) : q[i][1] = <<key>> /\ q[i][3] = 2 }
    IN IF Cardinality(at) = 1 THEN q[CHOOSE i \in at : TRUE][2] ELSE <<"?">>

IsUrlReturn ==
    /\ cret.kind = "return"
    /\ cret.op \in {"get_authorization_url", "provider.get_authorization_url"}

\* C24: the query of a built authorization URL reads back as the same
\* client_id, the same redirect_uri, the scopes in their order joined by
\* spaces, response_type=code, code_challenge_method=S256 and the state and
\* code_challenge of the attempt the URL was built for: the one the client
\* generated and holds, or the one handed to the provider.
C24_UrlRoundTrip ==
    IsUrlReturn
        => /\ QueryKeys(cret.value)
                = << <<"response_type">>, <<"client_id">>, <<"redirect_uri">>, <<"scope">>,
                     <<"state">>, <<"code_challenge">>, <<"code_challenge_method">> >>
           /\ QueryValue(cret.value, "client_id") = client_id
           /\ QueryValue(cret.value, "redirect_uri") = redirect_uri
           /\ QueryValue(cret.value, "scope") = JoinSpace(cret.scopes)
           /\ SplitAt(QueryValue(cret.value, "scope"), " ")
                = (IF cret.scopes = <<>> THEN << <<>> >>
                   ELSE [i \in 1..Len(cret.scopes) |-> <<cret.scopes[i]>>])
           /\ QueryValue(cret.value, "response_type") = <<"code">>
           /\ QueryValue(cret.value, "code_challenge_method") = <<"S256">>
           /\ QueryValue(cret.value, "state") = cret.url_state
           /\ QueryValue(cret.value, "code_challenge") = cret.url_challenge
           /\ cret.op = "get_authorization_url"
                => /\ cret.url_state = <<state>>
                   /\ cret.url_challenge = <<code_challenge>>
                   /\ code_challenge = S256(code_verifier)

\* A URL for a client_id and a redirect_uri that hold '&', '=', '+', '?',
\* with two scopes.
W24_ReservedCharactersTwoScopes ==
    /\ IsUrlReturn
    /\ cret.op = "get_authorization_url"
    /\ client_id = <<"a", "&", "b", "=", "c">>
    /\ \E i \in 1..Len(redirect_uri) : redirect_uri[i] = "?"
    /\ Len(cret.scopes) = 2

\* C25: building an authorization URL with an empty client_id ends in an
\* error and returns no URL; with a non-empty one it returns the URL and
\* sends nothing. Neither builder looks at client_id before urlencode.
X25_EmptyClientIdNoUrl ==
    [][ (cret'.kind = "return"
         /\ cret'.op \in {"get_authorization_url", "provider.get_authorization_url"})
            => /\ client_id # <<>>
               /\ cposts' = cposts
               /\ posts' = posts ]_vars

X27_NoRefreshAfterFailure ==
    [][ (ret.kind = "return" /\ ret.op = "refresh" /\ ret.sent = 1
         /\ ret.value = ReturnNone)
            => ~(ret'.kind = "call" /\ ret'.op = "refresh" /\ ret'.user = ret.user) ]_vars

\* C28: after a successful code exchange, whatever principal identifier the
\* issuer returned, the tool layer finds the credential just obtained:
\* get_oauth_status reports authenticated and the lookup the API tools make
\* for "default_user" gives that credential.
\* The exchange stores under the issuer's userId; the tools look up the
\* constant.
X28_ToolsFindExchangedToken ==
    (ret.kind = "return" /\ ret.op = "exchange" /\ ret.value.kind = "token")
        => /\ get_oauth_status(tokens).authenticated
           /\ get_token(tokens, DEFAULT_USER) = ret.value.token

\* C29: after any interleaving of refresh_token calls for one principal the
\* stored credential is the one most recently issued for it: a step never
\* replaces a stored credential by one issued earlier (access tokens are
\* numbered in the order of issue), and no caller gets None while the store
\* holds a valid credential that a concurrent refresh has put there.
\* Nothing orders two refreshes of one principal: their responses are stored
\* in the order of arrival, and the one the issuer rejects returns None.
EarlierIssuedOverwrites ==
    \E u \in DOMAIN tokens :
        u \in DOMAIN tokens' /\ tokens'[u].access_token < tokens[u].access_token

AbsentBesideValid ==
    /\ ret'.kind = "return"
    /\ ret'.op = "refresh"
    /\ ret'.sent = 1
    /\ ret'.value = ReturnNone
    /\ ret'.user \in DOMAIN tokens'
    /\ tokens'[ret'.user] # ret'.token
    /\ StillValid(tokens'[ret'.user], now')

X29_StoredIsLatestIssued ==
    [][ ~EarlierIssuedOverwrites /\ ~AbsentBesideValid ]_vars

\* C30 as stated: whenever refresh_token returns a credential, now is before
\* its expires_at less five minutes at the moment of return, also right after
\* a refresh and for every expires_in the issuer may return.
IsRefreshReturnOfToken ==
    /\ ret.kind = "return"
    /\ ret.op = "refresh"
    /\ ret.value.kind = "token"

WithinMargin(tok) == now < tok.expires_at - SkewMarginSeconds

X30_ReturnedTokenWithinMargin ==
    IsRefreshReturnOfToken => WithinMargin(ret.value.token)

\* C30 amended: a credential returned without a refresh request is the
\* stored one and is within the margin; a credential returned after a
\* refresh expires expires_in seconds after the return, and is within the
\* margin exactly when the issuer's expires_in exceeds five minutes.
C30_MarginUnlessShortLived ==
    IsRefreshReturnOfToken
        => /\ ret.sent = 0
                => /\ ret.value.token = ret.token
                   /\ WithinMargin(ret.value.token)
           /\ ret.sent = 1
                => /\ ret.value.token.expires_at = now + ret.reply.body.expires_in
                   /\ WithinMargin(ret.value.token)
                        <=> ret.reply.body.expires_in > SkewMarginSeconds

\* A refresh has just returned a token that lives two minutes.
W30_RefreshedTokenInsideMargin ==
    /\ IsRefreshReturnOfToken
    /\ ret.sent = 1
    /\ ret.reply.body.expires_in = 120
    /\ ~WithinMargin(ret.value.token)

\* C31: a fetch never sends two page requests with the same cursor, the
\* absent cursor of the first request included.
\* A response with messages, nextPage true and no lastMessageId leaves
\* last_message_id None: the next request is the first one again.
X31_NoCursorRequestedTwice ==
    \A i, j \in 1..Len(requests) :
        i < j => requests[i].lastMessageId # requests[j].lastMessageId

\* C32: within one fetch the first page request carries no cursor; every
\* later request carries as lastMessageId the cursor the response before it
\* returned (none when it returned none), with the same limit and type
\* filter; and it is sent only if that response reported more pages.
C32_CursorChained ==
    /\ Len(responses) = Len(requests)
    /\ \A i \in 1..Len(requests) :
         /\ requests[i].limit = PageLimit
         /\ requests[i].type = message_types
         /\ i = 1 => requests[i].lastMessageId = NoId
         /\ i > 1 => /\ responses[i - 1].kind = "ok"
                     /\ responses[i - 1].data.messages # <<>>
                     /\ responses[i - 1].data.nextPage
                     /\ requests[i].lastMessageId = responses[i - 1].data.lastMessageId

\* Three requests, the second and third with the cursors of the responses
\* before them, and a type filter.
W32_ThreeRequestsTwoCursors ==
    /\ Len(requests) = 3
    /\ message_types # NoTypes
    /\ requests[2].lastMessageId # NoId
    /\ requests[3].lastMessageId # NoId
    /\ requests[3].lastMessageId # requests[2].lastMessageId

\* C33: a record whose timestamp is missing or unparseable counts as older
\* than every start_date. With start_date given it is not retained and the
\* traversal stops at it: it is the last record examined and no request
\* follows. With start_date absent it is retained, whatever end_date is, as
\* often as it was examined, and in the result it stands before every dated
\* record.
Undated(m) == m.dateAdded = NoDate

C33_UndatedIsOldest ==
    /\ start_date # NoDate
         => /\ \A k \in 1..Len(filtered_messages) : ~Undated(filtered_messages[k])
            /\ \A i \in 1..Len(examined) :
                 Undated(examined[i])
                    => /\ i = Len(examined)
                       /\ reached_date_limit
                       /\ Len(requests) = pages_fetched
    /\ start_date = NoDate
         => /\ \A i \in 1..Len(examined) :
                 Undated(examined[i])
                    => Occurrences(filtered_messages, examined[i])
                         = Occurrences(examined, examined[i])
            /\ fpc = "done"
                 => \A i, j \in 1..Len(fret.messages) :
                      (i < j /\ Undated(fret.messages[j])) => Undated(fret.messages[i])

\* With start_date given, the fetch stopped at an undated record in the
\* middle of a page while the record after it was in range and more pages
\* were announced.
W33_StoppedAtUndated ==
    /\ fpc = "done"
    /\ start_date # NoDate
    /\ examined # <<>>
    /\ Undated(examined[Len(examined)])
    /\ Len(examined) < total_fetched
    /\ has_more
    /\ \E k \in 1..Len(collection) :
         /\ collection[k].id > examined[Len(examined)].id
         /\ collection[k].dateAdded # NoDate
         /\ collection[k].dateAdded >= start_date
         /\ end_date # NoDate => collection[k].dateAdded <= end_date

\* C34: each authorization-URL build replaces the attempt the client holds.
\* The state and challenge held are those of the URL built last; after two
\* builds with different states, an exchange presenting the state of the
\* first fails with the state-mismatch error and sends nothing; and the
\* verifier an exchange sends is the one whose challenge is in the URL built
\* last.
LastBuilt == built[Len(built)]

C34_BuildReplacesAttempt ==
    /\ built # <<>>
         => /\ state = LastBuilt.state
            /\ code_challenge = LastBuilt.code_challenge
            /\ S256(code_verifier) = LastBuilt.code_challenge
    /\ (/\ Len(built) = 2
        /\ built[1].state # built[2].state
        /\ cret.kind # "none"
        /\ cret.op = "exchange"
        /\ cret.state = built[1].state)
         => /\ cret.kind = "return"
            /\ cret.value = Raise(ValueErrorState)
            /\ cret.reply = NoReply
            /\ cpc = "idle"
            /\ creq = NoRequest
    /\ (cret.kind = "call" /\ cret.op = "exchange")
         => /\ built # <<>>
            /\ S256(creq.code_verifier) = LastBuilt.code_challenge

\* Two URLs were built with different states and challenges, and the
\* callback of the first has just been refused.
W34_FirstAttemptRefused ==
    /\ Len(built) = 2
    /\ built[1].state # built[2].state
    /\ built[1].code_challenge # built[2].code_challenge
    /\ cret.kind = "return"
    /\ cret.op = "exchange"
    /\ cret.state = built[1].state
    /\ cret.value = Raise(ValueErrorState)
    /\ cposts = 0

====
